---- MODULE Spec2Model ----
(***************************************************************************)
(* cf-ddns: the update-reconciliation engine (updater.Updater), the        *)
(* Cloudflare client it drives (cloudflare.Client) and the daemon loop     *)
(* that schedules its passes (main.runDaemon).                             *)
(*                                                                         *)
(* A pass (UpdateAll) spawns one goroutine per (record, type) pair; each   *)
(* goroutine runs updateRecord: detect the address, compare it with the    *)
(* State, upsert at the provider (find, then create or update), store the  *)
(* address, and report an error through errChan.  The provider and the     *)
(* detector are external: every call may fail.                             *)
(***************************************************************************)
EXTENDS Integers, Sequences, FiniteSets, TLC

\* ------------------------------------------------------------------ bounds
\* Number of ticker firings the daemon loop is observed for.
MaxTicks == 1

\* Number of calls of Get or Set each caller of the State makes.
MaxCalls == 2

\* ------------------------------------------------------- program constants
\* errChan := make(chan error, len(u.cfg.Records)*2)
TypesPerRecord == 2

\* ------------------------------------------------------------ input values
\* Addresses the detector can report, per family.
IPv4Addrs == {"203.0.113.5", "203.0.113.9"}
IPv6Addrs == {"2001:db8::1"}

Nil == "nil"

DNSRecord(zoneID, name, types, ttl, proxied) ==
    [ZoneID |-> zoneID, Name |-> name, Types |-> types, TTL |-> ttl, Proxied |-> proxied]

\* Configurations accepted by Validate: one dual-stack record; one record
\* whose type list repeats a type; two single-type records.
DualStack ==
    [Records |-> << DNSRecord("Z1", "home.example.com", <<"A", "AAAA">>, 120, FALSE) >>]
Repeated ==
    [Records |-> << DNSRecord("Z1", "home.example.com", <<"AAAA", "AAAA", "AAAA">>, 120, FALSE) >>]
TwoRecords ==
    [Records |-> << DNSRecord("Z1", "home.example.com", <<"A">>, 120, FALSE),
                    DNSRecord("Z2", "vpn.example.com", <<"AAAA">>, 300, TRUE) >>]

\* A configuration handed to NewUpdater without passing Validate: the second
\* type is neither "A" nor "AAAA".
InvalidType ==
    [Records |-> << DNSRecord("Z1", "home.example.com", <<"A", "TXT">>, 120, FALSE) >>]

DNSRecordInfo(id, zoneID, name, type, content, ttl, proxied) ==
    [ID |-> id, ZoneID |-> zoneID, Name |-> name, Type |-> type,
     Content |-> content, TTL |-> ttl, Proxied |-> proxied]

\* The provider's records are kept per (zone, name, type), in list order; a
\* record's identifier is that triple and its rank among the records created
\* for it.
RecordID(zoneID, name, type, n) == << zoneID, name, type, n >>

NoRecord == DNSRecordInfo(RecordID("", "", "", 0), "", "", "", "", 0, FALSE)

ZoneKeys ==
    { << "Z1", "home.example.com", "A" >>, << "Z1", "home.example.com", "AAAA" >>,
      << "Z2", "vpn.example.com", "AAAA" >> }

EmptyZone == [k \in ZoneKeys |-> << >>]

Existing(zoneID, name, type, content, ttl, proxied) ==
    [EmptyZone EXCEPT ![<< zoneID, name, type >>] =
        << DNSRecordInfo(RecordID(zoneID, name, type, 1), zoneID, name, type, content, ttl, proxied) >>]

ExistingA == Existing("Z1", "home.example.com", "A", "203.0.113.5", 120, FALSE)
ExistingAAAA == Existing("Z1", "home.example.com", "AAAA", "2001:db8::1", 60, TRUE)

\* The configuration the daemon is started with and the records it finds at
\* the provider.
Setups ==
    { << DualStack, EmptyZone >>, << DualStack, ExistingA >>,
      << Repeated, ExistingA >>, << Repeated, ExistingAAAA >>,
      << TwoRecords, ExistingA >> }

VARIABLES
    cfg,          \* Updater.cfg
    state,        \* Updater.state.Records: key string -> last known IP
    provider,     \* the records at Cloudflare
    mainPC,       \* position of runDaemon
    initIdx,      \* InitializeState: index of the next (record, type) pair
    initLog,      \* InitializeState: outcome of each lookup so far (history)
    initResult,   \* InitializeState: returned error ("none" before it returns)
    passPC,       \* UpdateAll: "idle" | "running"
    upc,          \* per goroutine: position in updateRecord
    currentIP,    \* per goroutine: local currentIP
    lastKnownIP,  \* per goroutine: local lastKnownIP
    existing,     \* per goroutine: record returned to UpsertDNSRecord
    uerr,         \* per goroutine: error returned by updateRecord
    errChan,      \* buffered channel of errors
    lastResult,   \* what the last UpdateAll returned
    calls,        \* per goroutine: calls made in this pass (history)
    tickPending,  \* a tick is waiting in ticker.C
    ticks,        \* ticker firings so far
    sigPending,   \* a signal is waiting in sigChan
    mu,           \* State.mu: the RWMutex guarding State.Records
    tasks,        \* callers of State.Get / State.Set: position and arguments
    written,      \* per (zone, name, type): the addresses written so far (history)
    det,          \* the Detector's fields and one call of GetIPv4 / GetIPv6
    callers,      \* goroutines of a pass inside GetIPv4 / GetIPv6 on the shared Detector
    ctxDone,      \* the context handed to UpdateAll has been cancelled
    load          \* config.Load: the file's content and what Load returned

vars == << cfg, state, provider, mainPC, initIdx, initLog, initResult,
           passPC, upc, currentIP, lastKnownIP, existing, uerr, errChan,
           lastResult, calls, tickPending, ticks, sigPending,
           mu, tasks, written, det, callers, ctxDone, load >>

\* ------------------------------------------------------------------- State
\* key := fmt.Sprintf("%s:%s:%s", zoneID, name, recordType)
Key(zoneID, name, recordType) == zoneID \o ":" \o name \o ":" \o recordType

\* State.Get: a missing key reads as the empty string.
Get(s, zoneID, name, recordType) ==
    IF Key(zoneID, name, recordType) \in DOMAIN s
    THEN s[Key(zoneID, name, recordType)] ELSE ""

\* Variant: an entry that exists is kept.
SetIfAbsent(s, zoneID, name, recordType, ip) ==
    [k \in DOMAIN s \cup {Key(zoneID, name, recordType)} |->
        IF k \in DOMAIN s THEN s[k] ELSE ip]

\* State.Set
Set(s, zoneID, name, recordType, ip) ==
    [k \in DOMAIN s \cup {Key(zoneID, name, recordType)} |->
        IF k = Key(zoneID, name, recordType) THEN ip ELSE s[k]]

\* NewState
NewState == [k \in {} |-> ""]

\* ------------------------------------------------------------ units of work
\* The (record, type) pairs in the order of the nested loops.
RECURSIVE TypePairs(_, _, _)
TypePairs(c, i, j) ==
    IF i > Len(c.Records) THEN << >>
    ELSE IF j > Len(c.Records[i].Types) THEN TypePairs(c, i + 1, 1)
    ELSE << <<i, j>> >> \o TypePairs(c, i, j + 1)

Pairs(c) == TypePairs(c, 1, 1)

UnitIDs == { Pairs(cfg)[n] : n \in 1..Len(Pairs(cfg)) }

Rec(u) == cfg.Records[u[1]]
RecType(u) == cfg.Records[u[1]].Types[u[2]]
UnitKey(u) == Key(Rec(u).ZoneID, Rec(u).Name, RecType(u))

\* ------------------------------------------------------- cloudflare.Client
\* Variant: the Type filter is left out of the listing.
MatchingAnyType(prov, zoneID, name, recordType) ==
    LET ks == { k \in DOMAIN prov : k[1] = zoneID /\ k[2] = name /\ Len(prov[k]) > 0 }
    IN IF ks = {} THEN << >> ELSE prov[CHOOSE k \in ks : TRUE]

\* api.ListDNSRecords with the Name and Type filters.
Matching(prov, zoneID, name, recordType) ==
    IF << zoneID, name, recordType >> \in DOMAIN prov
    THEN prov[<< zoneID, name, recordType >>] ELSE << >>

\* Client.GetDNSRecord: listErr is the outcome of api.ListDNSRecords.
GetDNSRecord(prov, listErr, zoneID, name, recordType) ==
    IF listErr
    THEN [err |-> "failed to list DNS records", rec |-> NoRecord]
    ELSE IF Len(Matching(prov, zoneID, name, recordType)) = 0
         THEN [err |-> "DNS record not found", rec |-> NoRecord]
         ELSE [err |-> Nil, rec |-> Matching(prov, zoneID, name, recordType)[1]]

\* Client.CreateDNSRecord: apiErr is the outcome of api.CreateDNSRecord.
CreateDNSRecord(prov, apiErr, zoneID, name, recordType, content, ttl, proxied) ==
    IF apiErr
    THEN [err |-> "failed to create DNS record", prov |-> prov]
    ELSE [err |-> Nil,
          prov |-> [prov EXCEPT ![<< zoneID, name, recordType >>] =
                      Append(@, DNSRecordInfo(RecordID(zoneID, name, recordType, Len(@) + 1),
                                              zoneID, name, recordType, content, ttl, proxied))]]

\* Client.UpdateDNSRecord: apiErr is the outcome of api.UpdateDNSRecord.
UpdateDNSRecord(prov, apiErr, recordID, zoneID, content, ttl, proxied) ==
    IF apiErr \/ ~(\E k \in DOMAIN prov : \E n \in 1..Len(prov[k]) :
                      prov[k][n].ID = recordID /\ prov[k][n].ZoneID = zoneID)
    THEN [err |-> "failed to update DNS record", prov |-> prov]
    ELSE [err |-> Nil,
          prov |-> [k \in DOMAIN prov |-> [n \in 1..Len(prov[k]) |->
                      IF prov[k][n].ID = recordID
                      THEN [prov[k][n] EXCEPT !.Content = content, !.TTL = ttl, !.Proxied = proxied]
                      ELSE prov[k][n]]]]

\* Client.UpsertDNSRecord: which call follows the lookup.
UpsertBranch(getErr) == IF getErr # Nil THEN "create" ELSE "update"

\* ------------------------------------------------------- ipdetect.Detector
\* Detector.GetIPv4 / GetIPv6: a validated, non-empty address of the
\* requested family, or the error raised when every service failed.
DetectorResults(recordType) ==
    { [ip |-> a, err |-> Nil] : a \in (IF recordType = "A" THEN IPv4Addrs ELSE IPv6Addrs) }
    \cup { [ip |-> "", err |-> "failed to detect address from all services"] }

\* ---------------------------------------------------------------- context
\* Whether a call made with the context can fail (TRUE) or succeed (FALSE):
\* once the context is cancelled, http and the Cloudflare API return its
\* error.
CallFails(done) == IF done THEN {TRUE} ELSE BOOLEAN

\* What GetIPv4 / GetIPv6 can return under the context: with a cancelled
\* context every NewRequestWithContext request fails, so all services fail.
Detected(recordType, done) ==
    IF done THEN { r \in DetectorResults(recordType) : r.err # Nil }
    ELSE DetectorResults(recordType)

\* --------------------------------------------------------- updater.Updater
\* Variant: every type other than "A" is resolved as an IPv6 address.
FamilyElseIPv6(recordType) == IF recordType = "A" THEN "IPv4" ELSE "IPv6"

\* updateRecord: "if recordType == "A" ... else if recordType == "AAAA" ...
\* else return fmt.Errorf("invalid record type: %s", recordType)".
Family(recordType) ==
    IF recordType = "A" THEN "IPv4"
    ELSE IF recordType = "AAAA" THEN "IPv6"
    ELSE "invalid"

\* Variant: the comparison is inverted.
NoChangeInverted(cur, last) == cur # last /\ last # ""

\* Variant: an absent entry counts as unchanged.
NoChangeOrAbsent(cur, last) == cur = last \/ last = ""

\* updateRecord: "if currentIP == lastKnownIP && lastKnownIP != """
NoChange(cur, last) == cur = last /\ last # ""

\* Variant: the configured TTL is dropped for the provider's automatic TTL.
UpsertArgsAutoTTL(record, recordType, cur) ==
    [zoneID |-> record.ZoneID, name |-> record.Name, type |-> recordType,
     content |-> cur, ttl |-> 1, proxied |-> record.Proxied]

\* updateRecord: the arguments handed to UpsertDNSRecord.
UpsertArgs(record, recordType, cur) ==
    [zoneID |-> record.ZoneID, name |-> record.Name, type |-> recordType,
     content |-> cur, ttl |-> record.TTL, proxied |-> record.Proxied]

\* Variant: the error of UpsertDNSRecord is not looked at.
UpsertFailedIgnored(err) == FALSE

\* updateRecord: "if err != nil { return ... }" after UpsertDNSRecord.
UpsertFailed(err) == err # Nil

\* Variant: the first failure cancels the units still running.
ReturnErrAbort(pcs, u) == [v \in DOMAIN pcs |-> IF v = u THEN "send" ELSE "done"]

\* UpdateAll's goroutine: a failed unit goes on to report its own error.
ReturnErr(pcs, u) == [pcs EXCEPT ![u] = "send"]

\* UpdateAll: capacity of errChan.
ErrChanCap(c) == Len(c.Records) * TypesPerRecord

\* Variant: a single error is not reported.
UpdateAllResultOffByOne(errors) ==
    IF Len(errors) > 1 THEN [ok |-> FALSE, count |-> Len(errors)]
    ELSE [ok |-> TRUE, count |-> 0]

\* UpdateAll: the value returned once errChan has been drained.
UpdateAllResult(errors) ==
    IF Len(errors) > 0 THEN [ok |-> FALSE, count |-> Len(errors)]
    ELSE [ok |-> TRUE, count |-> 0]

\* Variant: a lookup failure other than not-found is returned to the caller.
InitializeStateResultStrict(log) ==
    IF \E n \in 1..Len(log) : log[n].err = "failed to list DNS records"
    THEN "failed to initialize state" ELSE Nil

\* InitializeState: the value returned after the loop.
InitializeStateResult(log) == Nil

\* InitializeState: "if err != nil { ...; continue }".
LookupSkipped(err) == err # Nil

\* Variant: a failed lookup ends the loops.
InitNextAbort(idx, err, n) == IF err # Nil THEN n + 1 ELSE idx + 1

\* InitializeState: the loops go on to the next pair whatever the lookup
\* returned; n is the number of pairs.
InitNext(idx, err, n) == idx + 1

\* One entry of the call history.
Call(op, content, ttl, proxied, id, ok) ==
    [op |-> op, content |-> content, ttl |-> ttl, proxied |-> proxied, id |-> id, ok |-> ok]

Log(u, entries) == [calls EXCEPT ![u] = calls[u] \o entries]

PassPCs == {"InitialUpdate", "TickUpdate", "FinalUpdate"}

Idle(f, v) == [u \in DOMAIN f |-> v]

\* The callers of the State: none has called yet, the mutex is free.
TaskIDs == {1, 2}

\* Arguments the callers pass to Get and Set: the (zone, name, type) of the
\* configured records, as updateRecord and InitializeState pass them.
StateTuples == { << Rec(u).ZoneID, Rec(u).Name, RecType(u) >> : u \in UnitIDs }
StateAddrs == {"", "203.0.113.5", "203.0.113.9"}

IdleTask ==
    [pc |-> "idle", op |-> "", zoneID |-> "", name |-> "", type |-> "", ip |-> "", res |-> "", n |-> 0]

StateAtRest ==
    /\ mu = [w |-> FALSE, r |-> 0]
    /\ tasks = [t \in TaskIDs |-> IdleTask]
    /\ written = [k \in {} |-> << >>]

\* The Detector: no call of GetIPv4 / GetIPv6 is under way.
NoResult == [ip |-> "", err |-> "none"]

DetectorAtRest ==
    det = [pc |-> "idle", isIPv6 |-> FALSE, idx |-> 1, queried |-> << >>, result |-> NoResult,
           ipv4Cache |-> "", ipv6Cache |-> "", lastUpdate |-> 0]

\* No goroutine is inside the Detector, the context is not cancelled
\* (runDaemon passes context.Background()), Load is not under way.
IdleCaller == [pc |-> "idle", isIPv6 |-> FALSE, ip |-> ""]

NoLoad == [pc |-> "idle", file |-> << >>, cfg |-> << >>, err |-> "none"]

OthersAtRest ==
    /\ callers = [g \in TaskIDs |-> IdleCaller]
    /\ ctxDone = FALSE
    /\ load = NoLoad

\* runDaemon is entered with configuration c; the provider holds p.
EngineInit(c, p) ==
    /\ cfg = c
    /\ provider = p
    /\ state = NewState
    /\ mainPC = "InitializeState"
    /\ initIdx = 1
    /\ initLog = << >>
    /\ initResult = "none"
    /\ passPC = "idle"
    /\ upc = [u \in UnitIDs |-> "idle"]
    /\ currentIP = [u \in UnitIDs |-> ""]
    /\ lastKnownIP = [u \in UnitIDs |-> ""]
    /\ existing = [u \in UnitIDs |-> NoRecord]
    /\ uerr = [u \in UnitIDs |-> Nil]
    /\ errChan = << >>
    /\ lastResult = [ok |-> TRUE, count |-> 0]
    /\ calls = [u \in UnitIDs |-> << >>]
    /\ tickPending = FALSE
    /\ ticks = 0
    /\ sigPending = FALSE

Init ==
    /\ \E su \in Setups : EngineInit(su[1], su[2])
    /\ StateAtRest
    /\ DetectorAtRest
    /\ OthersAtRest

daemonVars == << mainPC, tickPending, ticks, sigPending >>
initVars == << initIdx, initLog, initResult >>
passVars == << passPC, upc, currentIP, lastKnownIP, existing, uerr, errChan, calls >>
engineVars == << cfg, provider, lastResult, daemonVars, initVars, passVars >>
auxVars == << mu, tasks, written, det >>
otherVars == << callers, ctxDone, load >>

\* Variant: InitializeState calls the upsert with the content it found (or
\* none), as updateRecord does: a create when the lookup failed.
InitializeStateCallUpsert(prov, listErr, zoneID, name, recordType) ==
    LET r == GetDNSRecord(prov, listErr, zoneID, name, recordType)
    IN IF UpsertBranch(r.err) = "create"
       THEN [r |-> r, ops |-> << "find", "create" >>,
             prov |-> CreateDNSRecord(prov, FALSE, zoneID, name, recordType, "", 1, FALSE).prov]
       ELSE [r |-> r, ops |-> << "find", "update" >>,
             prov |-> UpdateDNSRecord(prov, FALSE, r.rec.ID, zoneID, r.rec.Content, 1, FALSE).prov]

\* InitializeState: the one client call made for a (record, type) pair,
\* u.cfClient.GetDNSRecord, which lists the records and writes nothing.
InitializeStateCall(prov, listErr, zoneID, name, recordType) ==
    [r |-> GetDNSRecord(prov, listErr, zoneID, name, recordType),
     ops |-> << "find" >>,
     prov |-> prov]

\* InitializeState: one iteration of the nested loops.
InitLookup ==
    /\ mainPC = "InitializeState"
    /\ initIdx <= Len(Pairs(cfg))
    /\ \E listErr \in CallFails(ctxDone) :
         LET u == Pairs(cfg)[initIdx]
             c == InitializeStateCall(provider, listErr, Rec(u).ZoneID, Rec(u).Name, RecType(u))
             r == c.r
         IN /\ state' = IF LookupSkipped(r.err) THEN state
                        ELSE Set(state, Rec(u).ZoneID, Rec(u).Name, RecType(u), r.rec.Content)
            /\ provider' = c.prov
            /\ initLog' = Append(initLog, [unit |-> u, err |-> r.err, content |-> r.rec.Content,
                                           ops |-> c.ops])
            /\ initIdx' = InitNext(initIdx, r.err, Len(Pairs(cfg)))
    /\ UNCHANGED << cfg, initResult, lastResult >>
    /\ UNCHANGED daemonVars
    /\ UNCHANGED passVars
    /\ UNCHANGED auxVars
    /\ UNCHANGED otherVars

\* Variant: InitializeState returns without waiting for its lookups.
InitLoopsDoneEarly(idx, n) == TRUE

\* InitializeState: both "for ... range" loops have run to their end.
InitLoopsDone(idx, n) == idx > n

\* InitializeState returns; runDaemon goes on to the initial update.
InitReturn ==
    /\ mainPC = "InitializeState"
    /\ InitLoopsDone(initIdx, Len(Pairs(cfg)))
    /\ initResult' = InitializeStateResult(initLog)
    /\ mainPC' = "InitialUpdate"
    /\ UNCHANGED << cfg, state, provider, initIdx, initLog, lastResult,
                    tickPending, ticks, sigPending >>
    /\ UNCHANGED passVars
    /\ UNCHANGED auxVars
    /\ UNCHANGED otherVars

\* UpdateAll is called: one goroutine per (record, type) pair.
StartPass ==
    /\ mainPC \in PassPCs
    /\ passPC = "idle"
    /\ passPC' = "running"
    /\ upc' = [u \in UnitIDs |-> "detect"]
    /\ UNCHANGED << cfg, state, provider, lastResult,
                    currentIP, lastKnownIP, existing, uerr, errChan, calls >>
    /\ UNCHANGED daemonVars
    /\ UNCHANGED initVars
    /\ UNCHANGED auxVars
    /\ UNCHANGED otherVars

\* The goroutine's locals go out of scope when it is done.
Done(u) ==
    /\ currentIP' = [currentIP EXCEPT ![u] = ""]
    /\ lastKnownIP' = [lastKnownIP EXCEPT ![u] = ""]
    /\ existing' = [existing EXCEPT ![u] = NoRecord]

\* updateRecord: detect the current address.
Detect(u) ==
    /\ passPC = "running"
    /\ upc[u] = "detect"
    /\ IF Family(RecType(u)) = "invalid"
       THEN /\ uerr' = [uerr EXCEPT ![u] = "invalid record type"]
            /\ upc' = ReturnErr(upc, u)
            /\ UNCHANGED << currentIP, calls >>
       ELSE \E r \in Detected(RecType(u), ctxDone) :
              /\ calls' = Log(u, << Call("resolve", r.ip, 0, FALSE, NoRecord.ID, r.err = Nil) >>)
              /\ IF r.err # Nil
                 THEN /\ uerr' = [uerr EXCEPT ![u] = "failed to detect IP"]
                      /\ upc' = ReturnErr(upc, u)
                      /\ UNCHANGED currentIP
                 ELSE /\ currentIP' = [currentIP EXCEPT ![u] = r.ip]
                      /\ upc' = [upc EXCEPT ![u] = "get"]
                      /\ UNCHANGED uerr
    /\ UNCHANGED << cfg, state, provider, lastResult,
                    passPC, lastKnownIP, existing, errChan >>
    /\ UNCHANGED daemonVars
    /\ UNCHANGED initVars
    /\ UNCHANGED auxVars
    /\ UNCHANGED otherVars

\* updateRecord: read the State and decide; return nil when nothing changed,
\* call UpsertDNSRecord otherwise.
CheckState(u) ==
    /\ passPC = "running"
    /\ upc[u] = "get"
    /\ LET last == Get(state, Rec(u).ZoneID, Rec(u).Name, RecType(u))
           a == UpsertArgs(Rec(u), RecType(u), currentIP[u])
       IN IF NoChange(currentIP[u], last)
          THEN /\ upc' = [upc EXCEPT ![u] = "done"]
               /\ Done(u)
               /\ UNCHANGED calls
          ELSE /\ upc' = [upc EXCEPT ![u] = "find"]
               /\ lastKnownIP' = [lastKnownIP EXCEPT ![u] = last]
               /\ calls' = Log(u, << Call("upsert", a.content, a.ttl, a.proxied, NoRecord.ID, TRUE) >>)
               /\ UNCHANGED << currentIP, existing >>
    /\ UNCHANGED << cfg, state, provider, lastResult,
                    passPC, uerr, errChan >>
    /\ UNCHANGED daemonVars
    /\ UNCHANGED initVars
    /\ UNCHANGED auxVars
    /\ UNCHANGED otherVars

\* UpsertDNSRecord: look the record up.
Find(u) ==
    /\ passPC = "running"
    /\ upc[u] = "find"
    /\ \E listErr \in CallFails(ctxDone) :
         LET a == UpsertArgs(Rec(u), RecType(u), currentIP[u])
             r == GetDNSRecord(provider, listErr, a.zoneID, a.name, a.type)
         IN /\ existing' = [existing EXCEPT ![u] = r.rec]
            /\ upc' = [upc EXCEPT ![u] = UpsertBranch(r.err)]
            /\ calls' = Log(u, << Call("find", "", 0, FALSE, r.rec.ID, r.err = Nil) >>)
    /\ UNCHANGED << cfg, state, provider, lastResult,
                    passPC, currentIP, lastKnownIP, uerr, errChan >>
    /\ UNCHANGED daemonVars
    /\ UNCHANGED initVars
    /\ UNCHANGED auxVars
    /\ UNCHANGED otherVars

\* Variant: a failed create or update is tried again from the lookup.
AfterUpsertRetry(u, err) ==
    IF UpsertFailed(err)
    THEN /\ upc' = [upc EXCEPT ![u] = "find"]
         /\ UNCHANGED uerr
    ELSE /\ upc' = [upc EXCEPT ![u] = "set"]
         /\ UNCHANGED uerr

\* What follows the provider's answer to the create or update.
AfterUpsert(u, err) ==
    IF UpsertFailed(err)
    THEN /\ uerr' = [uerr EXCEPT ![u] = "failed to update Cloudflare DNS"]
         /\ upc' = ReturnErr(upc, u)
    ELSE /\ upc' = [upc EXCEPT ![u] = "set"]
         /\ UNCHANGED uerr

\* UpsertDNSRecord: no record was returned by the lookup, create one.
Create(u) ==
    /\ passPC = "running"
    /\ upc[u] = "create"
    /\ \E apiErr \in CallFails(ctxDone) :
         LET a == UpsertArgs(Rec(u), RecType(u), currentIP[u])
             r == CreateDNSRecord(provider, apiErr, a.zoneID, a.name, a.type,
                                  a.content, a.ttl, a.proxied)
         IN /\ provider' = r.prov
            /\ calls' = Log(u, << Call("create", a.content, a.ttl, a.proxied, NoRecord.ID, r.err = Nil) >>)
            /\ AfterUpsert(u, r.err)
    /\ UNCHANGED << cfg, state, lastResult,
                    passPC, currentIP, lastKnownIP, existing, errChan >>
    /\ UNCHANGED daemonVars
    /\ UNCHANGED initVars
    /\ UNCHANGED auxVars
    /\ UNCHANGED otherVars

\* UpsertDNSRecord: the lookup returned a record, update it.
Update(u) ==
    /\ passPC = "running"
    /\ upc[u] = "update"
    /\ \E apiErr \in CallFails(ctxDone) :
         LET a == UpsertArgs(Rec(u), RecType(u), currentIP[u])
             r == UpdateDNSRecord(provider, apiErr, existing[u].ID, a.zoneID,
                                  a.content, a.ttl, a.proxied)
         IN /\ provider' = r.prov
            /\ calls' = Log(u, << Call("update", a.content, a.ttl, a.proxied, existing[u].ID, r.err = Nil) >>)
            /\ AfterUpsert(u, r.err)
    /\ UNCHANGED << cfg, state, lastResult,
                    passPC, currentIP, lastKnownIP, existing, errChan >>
    /\ UNCHANGED daemonVars
    /\ UNCHANGED initVars
    /\ UNCHANGED auxVars
    /\ UNCHANGED otherVars

\* updateRecord: store the published address and return nil.
SetState(u) ==
    /\ passPC = "running"
    /\ upc[u] = "set"
    /\ state' = Set(state, Rec(u).ZoneID, Rec(u).Name, RecType(u), currentIP[u])
    /\ calls' = Log(u, << Call("set", currentIP[u], 0, FALSE, NoRecord.ID, TRUE) >>)
    /\ upc' = [upc EXCEPT ![u] = "done"]
    /\ Done(u)
    /\ UNCHANGED << cfg, provider, lastResult, passPC, uerr, errChan >>
    /\ UNCHANGED daemonVars
    /\ UNCHANGED initVars
    /\ UNCHANGED auxVars
    /\ UNCHANGED otherVars

\* The goroutine sends its error to errChan (blocks while the buffer is full).
SendErr(u) ==
    /\ passPC = "running"
    /\ upc[u] = "send"
    /\ Len(errChan) < ErrChanCap(cfg)
    /\ errChan' = Append(errChan, [name |-> Rec(u).Name, type |-> RecType(u), err |-> uerr[u]])
    /\ upc' = [upc EXCEPT ![u] = "done"]
    /\ Done(u)
    /\ UNCHANGED << cfg, state, provider, lastResult, passPC, uerr, calls >>
    /\ UNCHANGED daemonVars
    /\ UNCHANGED initVars
    /\ UNCHANGED auxVars
    /\ UNCHANGED otherVars

\* Variant: wg.Wait returns as soon as one goroutine is done.
WaitGroupAnyDone(pcs) == \E u \in DOMAIN pcs : pcs[u] = "done"

\* wg.Wait(): every goroutine has run its deferred wg.Done().
WaitGroupDone(pcs) == \A u \in DOMAIN pcs : pcs[u] = "done"

\* wg.Wait returns, errChan is closed and drained, UpdateAll returns; the
\* pass's goroutines, channel and errors are gone.
ReturnPass ==
    /\ passPC = "running"
    /\ WaitGroupDone(upc)
    /\ lastResult' = UpdateAllResult(errChan)
    /\ passPC' = "idle"
    /\ mainPC' = IF mainPC = "FinalUpdate" THEN "Done" ELSE "Loop"
    /\ upc' = Idle(upc, "idle")
    /\ uerr' = Idle(uerr, Nil)
    /\ calls' = Idle(calls, << >>)
    /\ errChan' = << >>
    /\ UNCHANGED << cfg, state, provider, currentIP, lastKnownIP,
                    existing, tickPending, ticks, sigPending >>
    /\ UNCHANGED initVars
    /\ UNCHANGED auxVars
    /\ UNCHANGED otherVars

\* The ticker fires; the loop sees the tick at its next select.
Tick ==
    /\ mainPC = "Loop"
    /\ ~tickPending
    /\ ticks < MaxTicks
    /\ ticks' = ticks + 1
    /\ tickPending' = TRUE
    /\ UNCHANGED << cfg, state, provider, lastResult, mainPC, sigPending >>
    /\ UNCHANGED initVars
    /\ UNCHANGED auxVars
    /\ UNCHANGED otherVars
    /\ UNCHANGED passVars

\* SIGINT or SIGTERM is delivered; the loop sees it at its next select.
Signal ==
    /\ mainPC = "Loop"
    /\ ~sigPending
    /\ sigPending' = TRUE
    /\ UNCHANGED << cfg, state, provider, lastResult, mainPC, tickPending, ticks >>
    /\ UNCHANGED initVars
    /\ UNCHANGED auxVars
    /\ UNCHANGED otherVars
    /\ UNCHANGED passVars

\* select: case <-ticker.C
SelectTick ==
    /\ mainPC = "Loop"
    /\ tickPending
    /\ tickPending' = FALSE
    /\ mainPC' = "TickUpdate"
    /\ UNCHANGED << cfg, state, provider, lastResult, ticks, sigPending >>
    /\ UNCHANGED initVars
    /\ UNCHANGED auxVars
    /\ UNCHANGED otherVars
    /\ UNCHANGED passVars

\* select: case sig := <-sigChan
SelectSignal ==
    /\ mainPC = "Loop"
    /\ sigPending
    /\ sigPending' = FALSE
    /\ mainPC' = "FinalUpdate"
    /\ UNCHANGED << cfg, state, provider, lastResult, tickPending, ticks >>
    /\ UNCHANGED initVars
    /\ UNCHANGED auxVars
    /\ UNCHANGED otherVars
    /\ UNCHANGED passVars

Next ==
    \/ InitLookup
    \/ InitReturn
    \/ StartPass
    \/ \E u \in UnitIDs : Detect(u)
    \/ \E u \in UnitIDs : CheckState(u)
    \/ \E u \in UnitIDs : Find(u)
    \/ \E u \in UnitIDs : Create(u)
    \/ \E u \in UnitIDs : Update(u)
    \/ \E u \in UnitIDs : SetState(u)
    \/ \E u \in UnitIDs : SendErr(u)
    \/ ReturnPass
    \/ Tick
    \/ Signal
    \/ SelectTick
    \/ SelectSignal

Spec == Init /\ [][Next]_vars

\* The engine run on a configuration that holds an invalid record type.
InitInvalidType ==
    /\ EngineInit(InvalidType, ExistingA)
    /\ StateAtRest
    /\ DetectorAtRest
    /\ OthersAtRest

SpecInvalidType == InitInvalidType /\ [][Next]_vars

\* ------------------------------------------------- State under its callers
\* Variant: Set takes the mutex as a reader does.
CanLockShared(m) == ~m.w

\* sync.RWMutex: Lock waits until no reader and no writer holds the mutex.
CanLock(m) == ~m.w /\ m.r = 0

\* sync.RWMutex: RLock waits until no writer holds the mutex.
CanRLock(m) == ~m.w

TaskAt(t, pc) == [tasks EXCEPT ![t].pc = pc]

\* A goroutine calls State.Get(zoneID, name, recordType).
GetCall(t) ==
    /\ tasks[t].pc = "idle"
    /\ tasks[t].n < MaxCalls
    /\ \E k \in StateTuples :
         tasks' = [tasks EXCEPT ![t] = [pc |-> "rlock", op |-> "Get", zoneID |-> k[1],
                                        name |-> k[2], type |-> k[3], ip |-> "", res |-> "",
                                        n |-> tasks[t].n + 1]]
    /\ UNCHANGED << state, mu, written, det >>
    /\ UNCHANGED engineVars
    /\ UNCHANGED otherVars

\* Get: s.mu.RLock()
GetRLock(t) ==
    /\ tasks[t].pc = "rlock"
    /\ CanRLock(mu)
    /\ mu' = [mu EXCEPT !.r = @ + 1]
    /\ tasks' = TaskAt(t, "read")
    /\ UNCHANGED << state, written, det >>
    /\ UNCHANGED engineVars
    /\ UNCHANGED otherVars

\* Get: return s.Records[key]
GetRead(t) ==
    /\ tasks[t].pc = "read"
    /\ tasks' = [tasks EXCEPT ![t].pc = "runlock",
                              ![t].res = Get(state, tasks[t].zoneID, tasks[t].name, tasks[t].type)]
    /\ UNCHANGED << state, mu, written, det >>
    /\ UNCHANGED engineVars
    /\ UNCHANGED otherVars

\* Get: the deferred s.mu.RUnlock(); Get returns.
GetRUnlock(t) ==
    /\ tasks[t].pc = "runlock"
    /\ mu' = [mu EXCEPT !.r = @ - 1]
    /\ tasks' = [tasks EXCEPT ![t] = [IdleTask EXCEPT !.n = tasks[t].n]]
    /\ UNCHANGED << state, written, det >>
    /\ UNCHANGED engineVars
    /\ UNCHANGED otherVars

\* A goroutine calls State.Set(zoneID, name, recordType, ip).
SetCall(t) ==
    /\ tasks[t].pc = "idle"
    /\ tasks[t].n < MaxCalls
    /\ \E k \in StateTuples : \E a \in StateAddrs :
         tasks' = [tasks EXCEPT ![t] = [pc |-> "lock", op |-> "Set", zoneID |-> k[1],
                                        name |-> k[2], type |-> k[3], ip |-> a, res |-> "",
                                        n |-> tasks[t].n + 1]]
    /\ UNCHANGED << state, mu, written, det >>
    /\ UNCHANGED engineVars
    /\ UNCHANGED otherVars

\* Set: s.mu.Lock()
SetLock(t) ==
    /\ tasks[t].pc = "lock"
    /\ CanLock(mu)
    /\ mu' = [mu EXCEPT !.w = TRUE]
    /\ tasks' = TaskAt(t, "write")
    /\ UNCHANGED << state, written, det >>
    /\ UNCHANGED engineVars
    /\ UNCHANGED otherVars

\* Set: s.Records[key] = ip
SetWrite(t) ==
    /\ tasks[t].pc = "write"
    /\ state' = Set(state, tasks[t].zoneID, tasks[t].name, tasks[t].type, tasks[t].ip)
    /\ LET k == << tasks[t].zoneID, tasks[t].name, tasks[t].type >>
       IN written' = [j \in DOMAIN written \cup {k} |->
                        IF j = k
                        THEN (IF k \in DOMAIN written THEN written[k] ELSE << >>) \o << tasks[t].ip >>
                        ELSE written[j]]
    /\ tasks' = TaskAt(t, "unlock")
    /\ UNCHANGED << mu, det >>
    /\ UNCHANGED engineVars
    /\ UNCHANGED otherVars

\* Set: the deferred s.mu.Unlock(); Set returns.
SetUnlock(t) ==
    /\ tasks[t].pc = "unlock"
    /\ mu' = [mu EXCEPT !.w = FALSE]
    /\ tasks' = [tasks EXCEPT ![t] = [IdleTask EXCEPT !.n = tasks[t].n]]
    /\ UNCHANGED << state, written, det >>
    /\ UNCHANGED engineVars
    /\ UNCHANGED otherVars

InitState ==
    /\ EngineInit(DualStack, EmptyZone)
    /\ StateAtRest
    /\ DetectorAtRest
    /\ OthersAtRest

NextState ==
    \/ \E t \in TaskIDs : GetCall(t)
    \/ \E t \in TaskIDs : GetRLock(t)
    \/ \E t \in TaskIDs : GetRead(t)
    \/ \E t \in TaskIDs : GetRUnlock(t)
    \/ \E t \in TaskIDs : SetCall(t)
    \/ \E t \in TaskIDs : SetLock(t)
    \/ \E t \in TaskIDs : SetWrite(t)
    \/ \E t \in TaskIDs : SetUnlock(t)

\* Goroutines calling Get and Set on one State.
SpecState == InitState /\ [][NextState]_vars

\* ------------------------------------------ Detector.GetIPv4 / GetIPv6
\* "IPv4 services to try in order" / "IPv6 services to try in order"
ipv4Services ==
    << "https://api.ipify.org", "https://icanhazip.com",
       "https://ifconfig.me/ip", "https://checkip.amazonaws.com" >>
ipv6Services ==
    << "https://api64.ipify.org", "https://ipv6.icanhazip.com", "https://v6.ident.me" >>

Services(isIPv6) == IF isIPv6 THEN ipv6Services ELSE ipv4Services

StatusOK == 200

\* IPv4 addresses written as IPv4-mapped IPv6 addresses.
MappedAddrs == {"::ffff:203.0.113.5"}

\* What a lookup service can answer: the request fails (for IPv6: over tcp6
\* and over the default client), the status is not 200, the body cannot be
\* read, or a body arrives; nl tells whether white space surrounds the text.
Bodies ==
    { [text |-> x, nl |-> b] :
        x \in {"203.0.113.5", "2001:db8::1", "::ffff:203.0.113.5", "not an address", ""},
        b \in BOOLEAN }

Responses ==
    { [kind |-> "error", status |-> 0, body |-> [text |-> "", nl |-> FALSE]],
      [kind |-> "unreadable", status |-> StatusOK, body |-> [text |-> "", nl |-> FALSE]],
      [kind |-> "response", status |-> 503, body |-> [text |-> "", nl |-> FALSE]] }
    \cup { [kind |-> "response", status |-> StatusOK, body |-> b] : b \in Bodies }

\* strings.TrimSpace
TrimSpace(body) == body.text

\* net.ParseIP followed by To4: nil for a text that is no address; to4 says
\* whether To4 returns a 4-byte address (IPv4 and IPv4-mapped addresses).
ParseIP(ip) ==
    IF ip \in IPv4Addrs \cup MappedAddrs THEN [nil |-> FALSE, to4 |-> TRUE]
    ELSE IF ip \in IPv6Addrs THEN [nil |-> FALSE, to4 |-> FALSE]
    ELSE [nil |-> TRUE, to4 |-> FALSE]

\* Variant: the family of the parsed address is not looked at.
fetchIPAnyFamily(resp, isIPv6) ==
    IF resp.kind = "error" THEN [ip |-> "", err |-> "request failed"]
    ELSE IF resp.status # StatusOK THEN [ip |-> "", err |-> "service returned status"]
    ELSE IF resp.kind = "unreadable" THEN [ip |-> "", err |-> "read failed"]
    ELSE IF ParseIP(TrimSpace(resp.body)).nil THEN [ip |-> "", err |-> "invalid IP address"]
    ELSE [ip |-> TrimSpace(resp.body), err |-> Nil]

\* Detector.fetchIP, given the service's answer.
fetchIP(resp, isIPv6) ==
    IF resp.kind = "error" THEN [ip |-> "", err |-> "request failed"]
    ELSE IF resp.status # StatusOK THEN [ip |-> "", err |-> "service returned status"]
    ELSE IF resp.kind = "unreadable" THEN [ip |-> "", err |-> "read failed"]
    ELSE IF ParseIP(TrimSpace(resp.body)).nil THEN [ip |-> "", err |-> "invalid IP address"]
    ELSE IF isIPv6 /\ ParseIP(TrimSpace(resp.body)).to4
         THEN [ip |-> "", err |-> "expected IPv6 but got IPv4"]
    ELSE IF ~isIPv6 /\ ~ParseIP(TrimSpace(resp.body)).to4
         THEN [ip |-> "", err |-> "expected IPv4 but got IPv6"]
    ELSE [ip |-> TrimSpace(resp.body), err |-> Nil]

\* GetIPv4 / GetIPv6: "if err == nil && ip != """
Accepted(r) == r.err = Nil /\ r.ip # ""

\* GetIPv4 (isIPv6 = FALSE) or GetIPv6 (isIPv6 = TRUE) is called.
GetIP ==
    /\ det.pc = "idle"
    /\ \E isIPv6 \in BOOLEAN :
         det' = [det EXCEPT !.pc = "loop", !.isIPv6 = isIPv6, !.idx = 1]
    /\ UNCHANGED << state, mu, tasks, written >>
    /\ UNCHANGED engineVars
    /\ UNCHANGED otherVars

\* One iteration of "for _, service := range ...Services".
TryService ==
    /\ det.pc = "loop"
    /\ det.idx <= Len(Services(det.isIPv6))
    /\ \E resp \in Responses :
         LET r == fetchIP(resp, det.isIPv6)
             q == Append(det.queried, [service |-> Services(det.isIPv6)[det.idx], resp |-> resp])
         IN IF Accepted(r)
            THEN det' = [det EXCEPT !.pc = "returned", !.queried = q, !.result = r,
                                    !.ipv4Cache = IF det.isIPv6 THEN @ ELSE r.ip,
                                    !.ipv6Cache = IF det.isIPv6 THEN r.ip ELSE @,
                                    !.lastUpdate = det.idx]
            ELSE det' = [det EXCEPT !.idx = @ + 1, !.queried = q]
    /\ UNCHANGED << state, mu, tasks, written >>
    /\ UNCHANGED engineVars
    /\ UNCHANGED otherVars

\* The loop ends without a result.
AllFailed ==
    /\ det.pc = "loop"
    /\ det.idx > Len(Services(det.isIPv6))
    /\ det' = [det EXCEPT !.pc = "returned",
                          !.result = [ip |-> "", err |-> "failed to detect address from all services"]]
    /\ UNCHANGED << state, mu, tasks, written >>
    /\ UNCHANGED engineVars
    /\ UNCHANGED otherVars

InitDetector ==
    /\ EngineInit(DualStack, EmptyZone)
    /\ StateAtRest
    /\ DetectorAtRest
    /\ OthersAtRest

NextDetector ==
    \/ GetIP
    \/ TryService
    \/ AllFailed

\* One call of GetIPv4 or GetIPv6 against services that answer anything.
SpecDetector == InitDetector /\ [][NextDetector]_vars

\* ---------------------------------- the Detector shared by a pass's units
\* The goroutines of one pass call GetIPv4 / GetIPv6 on the one Detector
\* that NewUpdater was given; nothing guards the Detector's fields.
Torn == "torn"

\* Goroutines other than g that are at the same unguarded write as g.
Racing(g, pc) ==
    { h \in TaskIDs \ {g} :
        /\ callers[h].pc = pc
        /\ pc = "cache" => callers[h].isIPv6 = callers[g].isIPv6 }

\* updateRecord calls u.detector.GetIPv4 (isIPv6 = FALSE) or GetIPv6.
DetCall(g) ==
    /\ callers[g].pc = "idle"
    /\ \E isIPv6 \in BOOLEAN :
         callers' = [callers EXCEPT ![g] = [pc |-> "fetch", isIPv6 |-> isIPv6, ip |-> ""]]
    /\ UNCHANGED << state, mu, tasks, written, det, ctxDone, load >>
    /\ UNCHANGED engineVars

\* The loop over the services ends: with an address, or with the error.
DetFetch(g) ==
    /\ callers[g].pc = "fetch"
    /\ \E r \in DetectorResults(IF callers[g].isIPv6 THEN "AAAA" ELSE "A") :
         callers' = [callers EXCEPT ![g].pc = IF r.err = Nil THEN "cache" ELSE "returned",
                                    ![g].ip = r.ip]
    /\ UNCHANGED << state, mu, tasks, written, det, ctxDone, load >>
    /\ UNCHANGED engineVars

\* "d.ipv4Cache = ip" / "d.ipv6Cache = ip": a write that races with the same
\* write of another goroutine leaves either value or a mix of both.
DetCache(g) ==
    /\ callers[g].pc = "cache"
    /\ \E v \in {callers[g].ip}
               \cup { callers[h].ip : h \in Racing(g, "cache") }
               \cup (IF Racing(g, "cache") = {} THEN {} ELSE {Torn}) :
         det' = IF callers[g].isIPv6 THEN [det EXCEPT !.ipv6Cache = v]
                                     ELSE [det EXCEPT !.ipv4Cache = v]
    /\ callers' = [callers EXCEPT ![g].pc = "stamp"]
    /\ UNCHANGED << state, mu, tasks, written, ctxDone, load >>
    /\ UNCHANGED engineVars

\* "d.lastUpdate = time.Now()": the time is named by the goroutine that took
\* it; -1 is a mix of two times.
DetStamp(g) ==
    /\ callers[g].pc = "stamp"
    /\ \E v \in {g} \cup Racing(g, "stamp")
               \cup (IF Racing(g, "stamp") = {} THEN {} ELSE {-1}) :
         det' = [det EXCEPT !.lastUpdate = v]
    /\ callers' = [callers EXCEPT ![g].pc = "returned"]
    /\ UNCHANGED << state, mu, tasks, written, ctxDone, load >>
    /\ UNCHANGED engineVars

InitSharedDetector ==
    /\ EngineInit(DualStack, EmptyZone)
    /\ StateAtRest
    /\ DetectorAtRest
    /\ OthersAtRest

NextSharedDetector ==
    \/ \E g \in TaskIDs : DetCall(g)
    \/ \E g \in TaskIDs : DetFetch(g)
    \/ \E g \in TaskIDs : DetCache(g)
    \/ \E g \in TaskIDs : DetStamp(g)

\* Two units of one pass inside the Detector.
SpecSharedDetector == InitSharedDetector /\ [][NextSharedDetector]_vars

\* ------------------------------------------- the engine under cancellation
\* The caller of InitializeState / UpdateAll cancels the context it passed.
Cancel ==
    /\ ~ctxDone
    /\ mainPC = "InitializeState" \/ passPC = "running"
    /\ ctxDone' = TRUE
    /\ UNCHANGED << state, callers, load >>
    /\ UNCHANGED engineVars
    /\ UNCHANGED auxVars

InitCancel ==
    /\ \E su \in { << DualStack, ExistingA >>, << Repeated, ExistingAAAA >> } :
         EngineInit(su[1], su[2])
    /\ StateAtRest
    /\ DetectorAtRest
    /\ OthersAtRest

NextCancel ==
    \/ Next
    \/ Cancel

\* The engine driven with a context that its caller may cancel.
SpecCancel == InitCancel /\ [][NextCancel]_vars

\* ------------------------------------------------------------------
\* config.Load and Config.Validate
\* ------------------------------------------------------------------

MinTTL == 60
MaxTTL == 86400

\* time.ParseDuration on the interval strings the files below use.
ParseDurationFails(s) == s \notin {"5m", "30s"}

\* The body of Validate's loop for one record; i is the Go index.
ValidateRecordNoTTL(i, record) ==
    IF record.ZoneID = "" THEN "zone_id is required"
    ELSE IF record.Name = "" THEN "name is required"
    ELSE IF Len(record.Types) = 0 THEN "at least one type (A or AAAA) is required"
    ELSE IF \E j \in 1..Len(record.Types) :
                record.Types[j] # "A" /\ record.Types[j] # "AAAA"
         THEN "invalid type"
    ELSE Nil

ValidateRecord(i, record) ==
    IF record.ZoneID = "" THEN "zone_id is required"
    ELSE IF record.Name = "" THEN "name is required"
    ELSE IF Len(record.Types) = 0 THEN "at least one type (A or AAAA) is required"
    ELSE IF \E j \in 1..Len(record.Types) :
                record.Types[j] # "A" /\ record.Types[j] # "AAAA"
         THEN "invalid type"
    ELSE IF record.TTL < MinTTL \/ record.TTL > MaxTTL
         THEN "ttl must be between 60 and 86400"
    ELSE Nil

Validate(c) ==
    IF c.APIToken = "" THEN "cloudflare.api_token is required"
    ELSE IF c.CheckInterval = "" THEN "check_interval is required"
    ELSE IF ParseDurationFails(c.CheckInterval) THEN "invalid check_interval format"
    ELSE IF Len(c.Records) = 0 THEN "at least one DNS record must be configured"
    ELSE IF \E i \in 1..Len(c.Records) : ValidateRecord(i - 1, c.Records[i]) # Nil
         THEN LET i == CHOOSE i \in 1..Len(c.Records) :
                           /\ ValidateRecord(i - 1, c.Records[i]) # Nil
                           /\ \A j \in 1..(i - 1) :
                                  ValidateRecord(j - 1, c.Records[j]) = Nil
              IN  ValidateRecord(i - 1, c.Records[i])
    ELSE Nil

\* Contents a configuration file can have: the records a YAML document
\* can decode to (absent fields decode to "", 0 and the empty list).
FileRecords ==
    { DNSRecord(z, n, t, ttl, FALSE) :
        z \in {"", "Z1"}, n \in {"", "home.example.com"},
        t \in { << >>, <<"A">>, <<"A", "AAAA">>, <<"TXT">>, <<"A", "TXT">> },
        ttl \in {0, MinTTL - 1, MinTTL, MaxTTL, MaxTTL + 1} }

FileRecordLists ==
    { << >> } \cup { << r >> : r \in FileRecords }
              \cup { << DNSRecord("Z1", "home.example.com", <<"A">>, 120, FALSE), r >> :
                       r \in FileRecords }
              \cup { << r, DNSRecord("Z1", "www.example.com", <<"AAAA">>, 300, TRUE) >> :
                       r \in FileRecords }

FileConfigs ==
    { [APIToken |-> tok, CheckInterval |-> iv, Records |-> rs] :
        tok \in {"", "token"}, iv \in {"", "5m", "soon"}, rs \in FileRecordLists }

Files ==
    { [kind |-> "missing", cfg |-> << >>], [kind |-> "garbage", cfg |-> << >>] }
        \cup { [kind |-> "yaml", cfg |-> c] : c \in FileConfigs }

\* runDaemon calls config.Load(configPath); os.ReadFile.
LoadReadFile ==
    /\ load.pc = "idle"
    /\ \E f \in Files :
         load' = IF f.kind = "missing"
                 THEN [pc |-> "returned", file |-> f, cfg |-> << >>,
                       err |-> "failed to read config file"]
                 ELSE [pc |-> "Unmarshal", file |-> f, cfg |-> << >>, err |-> "none"]
    /\ UNCHANGED << state, callers, ctxDone >>
    /\ UNCHANGED engineVars
    /\ UNCHANGED auxVars

\* yaml.Unmarshal(data, &cfg).
LoadUnmarshal ==
    /\ load.pc = "Unmarshal"
    /\ load' = IF load.file.kind = "garbage"
               THEN [load EXCEPT !.pc = "returned",
                                 !.err = "failed to parse config file"]
               ELSE [load EXCEPT !.pc = "Validate", !.cfg = load.file.cfg]
    /\ UNCHANGED << state, callers, ctxDone >>
    /\ UNCHANGED engineVars
    /\ UNCHANGED auxVars

\* cfg.Validate() and Load's two returns after it.
LoadValidate ==
    /\ load.pc = "Validate"
    /\ load' = IF Validate(load.cfg) # Nil
               THEN [load EXCEPT !.pc = "returned", !.cfg = << >>,
                                 !.err = "invalid configuration"]
               ELSE [load EXCEPT !.pc = "returned", !.err = Nil]
    /\ UNCHANGED << state, callers, ctxDone >>
    /\ UNCHANGED engineVars
    /\ UNCHANGED auxVars

\* runDaemon after Load: log.Fatalf on an error, else the configuration
\* goes on to NewClient, NewDetector and NewUpdater.
LoadFatal ==
    /\ load.pc = "returned"
    /\ load.err # Nil
    /\ load' = [load EXCEPT !.pc = "fatal"]
    /\ UNCHANGED << state, callers, ctxDone >>
    /\ UNCHANGED engineVars
    /\ UNCHANGED auxVars

LoadProceed ==
    /\ load.pc = "returned"
    /\ load.err = Nil
    /\ load' = [load EXCEPT !.pc = "engine"]
    /\ UNCHANGED << state, callers, ctxDone >>
    /\ UNCHANGED engineVars
    /\ UNCHANGED auxVars

InitLoad ==
    /\ EngineInit(DualStack, EmptyZone)
    /\ StateAtRest
    /\ DetectorAtRest
    /\ OthersAtRest

NextLoad ==
    \/ LoadReadFile
    \/ LoadUnmarshal
    \/ LoadValidate
    \/ LoadFatal
    \/ LoadProceed

SpecLoad == InitLoad /\ [][NextLoad]_vars

\* ------------------------------------------------------------------
\* The engine on a record that lists the type "A" twice: Validate accepts
\* it, and UpdateAll starts one goroutine per listed type.
\* ------------------------------------------------------------------
RepeatedA ==
    [Records |-> << DNSRecord("Z1", "home.example.com", <<"A", "A">>, 120, FALSE) >>]

InitRepeatedA ==
    /\ EngineInit(RepeatedA, ExistingA)
    /\ StateAtRest
    /\ DetectorAtRest
    /\ OthersAtRest

SpecRepeatedA == InitRepeatedA /\ [][Next]_vars

\* ------------------------------------------------------------------
\* The State under callers whose zone identifiers and names hold a colon:
\* Validate asks of both only that they are not empty.
\* ------------------------------------------------------------------
ColonNames ==
    [Records |-> << DNSRecord("Z1", "home:lan", <<"A">>, 120, FALSE),
                    DNSRecord("Z1:home", "lan", <<"A">>, 120, FALSE) >>]

InitStateKeys ==
    /\ EngineInit(ColonNames, EmptyZone)
    /\ StateAtRest
    /\ DetectorAtRest
    /\ OthersAtRest

SpecStateKeys == InitStateKeys /\ [][NextState]_vars

TypeOK ==
    /\ mainPC \in {"InitializeState", "Loop", "Done"} \cup PassPCs
    /\ passPC \in {"idle", "running"}
    /\ \A u \in UnitIDs : upc[u] \in {"idle", "detect", "get", "find", "create", "update", "set", "send", "done"}
    /\ \A k \in DOMAIN state : state[k] # ""

\* ============================================================== properties
ProviderOps == {"upsert", "find", "create", "update"}

OpsOf(log, ops) == SelectSeq(log, LAMBDA e : e.op \in ops)

\* The unit leaves the comparison of updateRecord in this step.
Decides(u) == upc[u] = "get" /\ upc'[u] # "get"

\* C1 (no-op law): when a unit has resolved address A and the stored address
\* of its key is A and non-empty, the unit finishes at once without error,
\* having made no provider call, and the State and the provider are as before.
C1_NoOp ==
    [][\A u \in UnitIDs :
         (/\ Decides(u)
          /\ UnitKey(u) \in DOMAIN state
          /\ state[UnitKey(u)] = currentIP[u]
          /\ state[UnitKey(u)] # "")
         => (/\ upc'[u] = "done"
             /\ uerr'[u] = Nil
             /\ OpsOf(calls'[u], ProviderOps) = << >>
             /\ state' = state
             /\ provider' = provider)]_vars

C1_Witness ==
    \E u \in UnitIDs :
        /\ upc[u] = "done"
        /\ uerr[u] = Nil
        /\ Len(calls[u]) = 1
        /\ calls[u][1].op = "resolve"
        /\ UnitKey(u) \in DOMAIN state
        /\ state[UnitKey(u)] = calls[u][1].content

\* C2 (first observation): when the key of a unit has no stored address, a
\* successful resolution with address A makes the unit call the upsert with
\* content A.
C2_FirstObservation ==
    [][\A u \in UnitIDs :
         (Decides(u) /\ UnitKey(u) \notin DOMAIN state)
         => (/\ upc'[u] = "find"
             /\ Len(calls'[u]) = Len(calls[u]) + 1
             /\ calls'[u][Len(calls'[u])].op = "upsert"
             /\ calls'[u][Len(calls'[u])].content = currentIP[u]
             /\ currentIP[u] # "")]_vars

C2_Witness ==
    \E u \in UnitIDs :
        /\ upc[u] = "find"
        /\ UnitKey(u) \notin DOMAIN state
        /\ lastKnownIP[u] = ""
        /\ OpsOf(calls[u], {"upsert"}) # << >>

\* The unit read a stored address that differs from the resolved one.
Changed(u) ==
    /\ upc[u] \in {"find", "create", "update", "set"}
    /\ lastKnownIP[u] # ""
    /\ lastKnownIP[u] # currentIP[u]

\* C3 (changed address): a unit that read stored address A1 and resolved
\* A2 # A1 issues exactly one upsert, with content A2 and the configured TTL
\* and proxy flag, the provider write carries the same values, and when the
\* unit finishes without error the stored address of its key is A2.
C3_ChangedAddress ==
    [][\A u \in UnitIDs :
         Changed(u)
         => (/\ OpsOf(calls[u], {"upsert"}) =
                  << Call("upsert", currentIP[u], Rec(u).TTL, Rec(u).Proxied, NoRecord.ID, TRUE) >>
             /\ OpsOf(calls'[u], {"upsert"}) = OpsOf(calls[u], {"upsert"})
             /\ \A n \in 1..Len(calls'[u]) :
                  calls'[u][n].op \in {"create", "update"}
                  => /\ calls'[u][n].content = currentIP[u]
                     /\ calls'[u][n].ttl = Rec(u).TTL
                     /\ calls'[u][n].proxied = Rec(u).Proxied
             /\ (upc'[u] = "done" /\ uerr'[u] = Nil)
                  => /\ UnitKey(u) \in DOMAIN state'
                     /\ state'[UnitKey(u)] = currentIP[u])]_vars

C3_Witness ==
    \E u \in UnitIDs :
        /\ upc[u] = "done"
        /\ uerr[u] = Nil
        /\ Len(calls[u]) = 5
        /\ calls[u][4].op = "update"
        /\ calls[u][4].ok
        /\ calls[u][4].content = "203.0.113.9"
        /\ calls[u][5].op = "set"
        /\ state[UnitKey(u)] = "203.0.113.9"

\* The body of updateRecord, up to the write of the State.
UnitStep(u) ==
    Detect(u) \/ CheckState(u) \/ Find(u) \/ Create(u) \/ Update(u) \/ SetState(u)

InBody(u) == upc[u] \in {"detect", "get", "find", "create", "update", "set"}

\* updateRecord of unit u returns an error in this step.
Fails(u) == uerr[u] = Nil /\ uerr'[u] # Nil

\* The unit writes the State in this step.
Writes(u) == OpsOf(calls'[u], {"set"}) # OpsOf(calls[u], {"set"}) /\ passPC' = "running"

ZoneKey(u) == << Rec(u).ZoneID, Rec(u).Name, RecType(u) >>

\* C4 (failure isolation): while a pass runs, a unit that failed never keeps
\* another unit from taking its next step in updateRecord; the step in which
\* a unit fails changes neither the State nor anything of the other units;
\* and an entry of the State is never removed and changes only when a unit
\* of that key stores the address it published (nothing is rolled back, also
\* not when the pass returns with failures).
C4_FailureIsolation ==
    /\ [](\A u, v \in UnitIDs :
            (passPC = "running" /\ u # v /\ uerr[u] # Nil /\ InBody(v)) => ENABLED UnitStep(v))
    /\ [][passPC = "running" =>
            /\ \A u \in UnitIDs :
                 Fails(u) => /\ state' = state
                             /\ \A v \in UnitIDs \ {u} :
                                  /\ upc'[v] = upc[v]
                                  /\ uerr'[v] = uerr[v]
                                  /\ currentIP'[v] = currentIP[v]
                                  /\ lastKnownIP'[v] = lastKnownIP[v]
                                  /\ existing'[v] = existing[v]
                                  /\ calls'[v] = calls[v]
            /\ \A k \in DOMAIN state :
                 /\ k \in DOMAIN state'
                 /\ state'[k] # state[k]
                      => \E v \in UnitIDs : /\ UnitKey(v) = k
                                            /\ upc[v] = "set" /\ upc'[v] = "done"
                                            /\ state'[k] = currentIP[v]]_vars

C4_Witness ==
    \E u, v \in UnitIDs :
        /\ UnitKey(u) # UnitKey(v)
        /\ upc[u] = "done" /\ uerr[u] # Nil
        /\ upc[v] = "done" /\ uerr[v] = Nil
        /\ OpsOf(calls[v], {"set"}) # << >>
        /\ state[UnitKey(v)] = calls[v][Len(calls[v])].content

\* UpdateAll returns in this step.
Returns == passPC = "running" /\ passPC' = "idle"

Failed == { u \in UnitIDs : uerr[u] # Nil }

\* C5 (aggregate outcome): when UpdateAll returns after K of its units
\* failed, it returns success iff K = 0 and otherwise a failure whose count
\* is K; every unit that did not fail and called the upsert has stored its
\* address by then, and the State is not touched by the return.
C5_AggregateOutcome ==
    [][Returns =>
         /\ lastResult'.ok = (Cardinality(Failed) = 0)
         /\ lastResult'.count = Cardinality(Failed)
         /\ state' = state
         /\ \A u \in UnitIDs \ Failed :
              OpsOf(calls[u], {"upsert"}) # << >>
              => /\ calls[u][Len(calls[u])].op = "set"
                 /\ calls[u][Len(calls[u])].content = OpsOf(calls[u], {"upsert"})[1].content
                 /\ UnitKey(u) \in DOMAIN state
                 /\ \E v \in UnitIDs \ Failed :
                      /\ UnitKey(v) = UnitKey(u)
                      /\ OpsOf(calls[v], {"set"}) # << >>
                      /\ state[UnitKey(u)] = OpsOf(calls[v], {"set"})[1].content]_vars

C5_Witness ==
    /\ cfg = TwoRecords
    /\ mainPC = "Loop"
    /\ ticks = 0
    /\ lastResult = [ok |-> FALSE, count |-> 1]
    /\ Key("Z2", "vpn.example.com", "AAAA") \in DOMAIN state

\* C6 (state write): during UpdateAll the State changes only in the step in
\* which a unit stores its address; that unit's last call is a create or
\* update that returned success, the address stored is the content of that
\* call and of the upsert, only the unit's key is written, a unit writes at
\* most once, and a unit that fails writes nothing.
C6_StateWrite ==
    [][passPC = "running" =>
         /\ state' # state => \E u \in UnitIDs : Writes(u)
         /\ \A u \in UnitIDs :
              /\ Len(OpsOf(calls'[u], {"set"})) <= 1
              /\ Fails(u) => state' = state
              /\ uerr'[u] # Nil => OpsOf(calls'[u], {"set"}) = << >>
              /\ Writes(u) =>
                   LET e == calls[u][Len(calls[u])]
                   IN /\ e.op \in {"create", "update"}
                      /\ e.ok
                      /\ OpsOf(calls[u], {"upsert"}) # << >>
                      /\ OpsOf(calls[u], {"upsert"})[1].content = e.content
                      /\ DOMAIN state' = DOMAIN state \cup {UnitKey(u)}
                      /\ state'[UnitKey(u)] = e.content
                      /\ \A k \in DOMAIN state \ {UnitKey(u)} : state'[k] = state[k]]_vars

C6_Witness ==
    \E u \in UnitIDs :
        /\ upc[u] = "done"
        /\ Len(calls[u]) = 5
        /\ calls[u][4].op = "create" /\ calls[u][4].ok
        /\ calls[u][5].op = "set"
        /\ state[UnitKey(u)] = calls[u][4].content

\* C7: InitializeState returns nil whatever its lookups returned.
C7_InitAlwaysSucceeds ==
    mainPC # "InitializeState" => initResult = Nil

C7_Witness ==
    /\ mainPC = "InitialUpdate"
    /\ initResult = Nil
    /\ \E n, m \in 1..Len(initLog) :
         /\ initLog[n].err = "failed to list DNS records"
         /\ initLog[m].err = "DNS record not found"

\* C8: InitializeState looks every configured pair up, in order; a lookup
\* that succeeds stores the content of the record found under the pair's
\* key and leaves the other keys alone, a lookup that fails leaves the State
\* as it was, and the loops run to the last pair whatever failed.
C8_InitSeedsEveryPair ==
    [][/\ (mainPC = "InitializeState" /\ initLog' # initLog) =>
            LET e == initLog'[Len(initLog')]
                u == e.unit
            IN /\ Len(initLog') = Len(initLog) + 1
               /\ Len(initLog') <= Len(Pairs(cfg))
               /\ u = Pairs(cfg)[Len(initLog')]
               /\ e.err = Nil =>
                    /\ Len(provider[ZoneKey(u)]) > 0
                    /\ e.content = provider[ZoneKey(u)][1].Content
                    /\ DOMAIN state' = DOMAIN state \cup {UnitKey(u)}
                    /\ state'[UnitKey(u)] = e.content
                    /\ \A k \in DOMAIN state \ {UnitKey(u)} : state'[k] = state[k]
               /\ e.err # Nil => state' = state
       /\ (mainPC = "InitializeState" /\ mainPC' # "InitializeState") =>
            /\ Len(initLog) = Len(Pairs(cfg))
            /\ \A n \in 1..Len(initLog) :
                 initLog[n].err = Nil
                 => /\ UnitKey(initLog[n].unit) \in DOMAIN state
                    /\ state[UnitKey(initLog[n].unit)] = initLog[n].content]_vars

C8_Witness ==
    /\ mainPC = "InitialUpdate"
    /\ \E n, m \in 1..Len(initLog) :
         /\ n < m
         /\ initLog[n].err = "failed to list DNS records"
         /\ initLog[m].err = Nil
         /\ state[UnitKey(initLog[m].unit)] = initLog[m].content

\* No configured key has a record at the provider.
NoMatchingRecords == \A u \in UnitIDs : Len(provider[ZoneKey(u)]) = 0

\* C9: when the provider holds no record for any configured key,
\* InitializeState returns nil and leaves every key of the State absent.
C9_InitNothingFound ==
    (mainPC = "InitialUpdate" /\ passPC = "idle" /\ NoMatchingRecords)
    => (DOMAIN state = {} /\ initResult = Nil)

C9_Witness ==
    /\ mainPC = "InitialUpdate"
    /\ passPC = "idle"
    /\ NoMatchingRecords
    /\ provider = ExistingA
    /\ \E n \in 1..Len(initLog) : initLog[n].err = "DNS record not found"
    /\ state = NewState

\* C10: a create is issued only when the provider holds no record for the
\* key, an update only when it holds one and for the identifier of the
\* record found, and one upsert never issues both.
C10_FindOrCreateElseUpdate ==
    \A u \in UnitIDs :
        /\ upc[u] = "create" => Len(provider[ZoneKey(u)]) = 0
        /\ upc[u] = "update" =>
             /\ existing[u] # NoRecord
             /\ \E n \in 1..Len(provider[ZoneKey(u)]) : provider[ZoneKey(u)][n].ID = existing[u].ID
        /\ Len(OpsOf(calls[u], {"create", "update"})) <= 1

\* Units whose record type is neither "A" nor "AAAA".
InvalidUnits == { u \in UnitIDs : RecType(u) \notin {"A", "AAAA"} }

\* C11 (invalid record type): a unit whose type is outside {A, AAAA} fails
\* only itself: it never calls the resolver or the provider, the step in
\* which it fails sets the error "invalid record type" and changes neither
\* the State, the provider nor any other unit, its key never enters the
\* State, UpdateAll counts it as one of the failures it returns, and the
\* other units can always take their next step.
C11_InvalidTypeFailsAlone ==
    /\ [](\A u \in InvalidUnits : calls[u] = << >> /\ UnitKey(u) \notin DOMAIN state)
    /\ [](\A u \in InvalidUnits : \A v \in UnitIDs \ {u} :
            (passPC = "running" /\ InBody(v)) => ENABLED UnitStep(v))
    /\ [][\A u \in InvalidUnits :
            /\ (upc[u] = "detect" /\ upc'[u] # "detect") =>
                  /\ uerr'[u] = "invalid record type"
                  /\ upc'[u] = "send"
                  /\ state' = state
                  /\ provider' = provider
                  /\ \A v \in UnitIDs \ {u} :
                       /\ upc'[v] = upc[v]
                       /\ uerr'[v] = uerr[v]
                       /\ currentIP'[v] = currentIP[v]
                       /\ calls'[v] = calls[v]
            /\ (upc[u] = "send" /\ upc'[u] # "send") =>
                  /\ upc'[u] = "done"
                  /\ Len(errChan') = Len(errChan) + 1
                  /\ errChan'[Len(errChan')].type = RecType(u)
                  /\ state' = state
            /\ Returns =>
                  /\ u \in Failed
                  /\ ~lastResult'.ok
                  /\ lastResult'.count = Cardinality(Failed)
                  /\ Len(SelectSeq(errChan, LAMBDA e : e.type = RecType(u))) = 1]_vars

C11_Witness ==
    \E u \in InvalidUnits : \E v \in UnitIDs \ {u} :
        /\ passPC = "running"
        /\ upc[u] = "done" /\ uerr[u] = "invalid record type"
        /\ Len(errChan) = 1
        /\ upc[v] = "done" /\ uerr[v] = Nil
        /\ OpsOf(calls[v], {"set"}) # << >>

\* A shutdown has been requested: the signal waits in sigChan or has been
\* received by the loop.
ShutdownRequested == sigPending \/ mainPC \in {"FinalUpdate", "Done"}

\* C12 (shutdown): once a shutdown signal has been requested the loop starts
\* no pass for a tick; after receiving the signal it runs exactly one final
\* UpdateAll and runDaemon returns when that pass returns, after which
\* nothing happens any more.
C12_Shutdown ==
    [][/\ ShutdownRequested => ~(mainPC # "TickUpdate" /\ mainPC' = "TickUpdate")
       /\ mainPC = "FinalUpdate" => mainPC' \in {"FinalUpdate", "Done"}
       /\ (mainPC = "FinalUpdate" /\ mainPC' = "Done") => Returns
       /\ mainPC = "Done" => vars' = vars]_vars

\* A later pass over the dual-stack record, seen from unit u: an earlier
\* pass has returned, the State holds an address for both keys, and no other
\* unit has stored an address in this pass.
LaterPass(u) ==
    /\ cfg = DualStack
    /\ mainPC \in {"TickUpdate", "FinalUpdate"}
    /\ passPC = "running"
    /\ \A v \in UnitIDs : UnitKey(v) \in DOMAIN state
    /\ \A v \in UnitIDs \ {u} : OpsOf(calls[v], {"set"}) = << >>

\* C13 (across passes, record with both types): in a pass that follows the
\* publication of both keys, a unit whose resolved address equals the stored
\* one makes no provider call and leaves the State alone, and a pass in
\* which this is so for both units returns success; a unit whose address
\* changed issues at most one provider write and that write is an update of
\* the record found, never a create.
C13_AcrossPasses ==
    /\ [](\A u \in UnitIDs :
            (LaterPass(u) /\ lastKnownIP[u] # "" /\ lastKnownIP[u] # currentIP[u])
            => /\ upc[u] # "create"
               /\ Len(OpsOf(calls[u], {"create", "update"})) <= 1
               /\ OpsOf(calls[u], {"create"}) = << >>)
    /\ [][/\ \A u \in UnitIDs :
              (LaterPass(u) /\ Decides(u) /\ currentIP[u] = state[UnitKey(u)])
              => /\ upc'[u] = "done"
                 /\ uerr'[u] = Nil
                 /\ OpsOf(calls'[u], ProviderOps) = << >>
                 /\ state' = state
                 /\ provider' = provider
          /\ (/\ Returns
              /\ cfg = DualStack
              /\ mainPC # "InitialUpdate"
              /\ \A u \in UnitIDs : Len(calls[u]) = 1 /\ calls[u][1].ok)
             => (lastResult' = [ok |-> TRUE, count |-> 0] /\ state' = state)]_vars

\* ------------------------------------------------------ State: Get and Set
TupleOf(t) == << tasks[t].zoneID, tasks[t].name, tasks[t].type >>

\* The address of the most recent set on tuple k ("" is never used here for
\* a tuple that was not set: see Ever).
LastWritten(k) == written[k][Len(written[k])]

\* A set on tuple k has occurred.
Ever(k) == k \in DOMAIN written

\* The Get of caller t reads the map in this step.
Reads(t) == tasks[t].pc = "read" /\ tasks'[t].pc = "runlock"

\* The Set of caller t writes the map in this step.
Stores(t) == tasks[t].pc = "write" /\ tasks'[t].pc = "unlock"

\* C14 (get after sets): a Get returns the address of the most recent Set
\* on its (zone, name, type), and it returns the absent marker "" if and
\* only if no Set on that (zone, name, type) has ever occurred.
C14_GetAfterSets ==
    [][\A t \in TaskIDs :
          Reads(t) =>
            /\ Ever(TupleOf(t)) => tasks'[t].res = LastWritten(TupleOf(t))
            /\ (tasks'[t].res = "") <=> ~Ever(TupleOf(t))]_vars

\* C15 (set overwrites, idempotent): a Set makes its address the entry of
\* its key whatever the entry was before and touches no other entry; a Set
\* that repeats the most recent Set on its key leaves the whole State as it
\* was, and applying it once more to the result changes nothing.
C15_SetOverwrites ==
    [][\A t \in TaskIDs :
          Stores(t) =>
            LET key == Key(tasks[t].zoneID, tasks[t].name, tasks[t].type)
            IN /\ DOMAIN state' = DOMAIN state \cup {key}
               /\ state'[key] = tasks[t].ip
               /\ \A j \in DOMAIN state \ {key} : state'[j] = state[j]
               /\ (Ever(TupleOf(t)) /\ LastWritten(TupleOf(t)) = tasks[t].ip) => state' = state
               /\ Set(state', tasks[t].zoneID, tasks[t].name, tasks[t].type, tasks[t].ip) = state']_vars

C15_Witness ==
    \E k \in DOMAIN written :
        /\ Len(written[k]) = 3
        /\ written[k][1] # written[k][2]
        /\ written[k][2] = written[k][3]
        /\ state[Key(k[1], k[2], k[3])] = written[k][3]

\* Caller t holds the mutex.
Holds(t) == tasks[t].pc \in {"read", "runlock", "write", "unlock"}

\* The Sets under way on tuple k while caller t is in its Get.
ConcurrentSets(t, k) ==
    { v \in TaskIDs \ {t} : tasks[v].op = "Set" /\ TupleOf(v) = k }

\* C16 (State under concurrent callers): two callers hold the mutex at the
\* same time only if both are in Get; every (zone, name, type) that was set
\* holds the address written last, whatever was written to the others (no
\* lost update); and a Get returns the address written last or the address
\* of a Set under way on its key, never anything else.
C16_StateConcurrency ==
    /\ [](\A t, v \in TaskIDs :
            (t # v /\ Holds(t) /\ Holds(v)) => (tasks[t].op = "Get" /\ tasks[v].op = "Get"))
    /\ [](\A k \in DOMAIN written :
            /\ Key(k[1], k[2], k[3]) \in DOMAIN state
            /\ state[Key(k[1], k[2], k[3])] = LastWritten(k))
    /\ [][\A t \in TaskIDs :
            Reads(t) =>
              tasks'[t].res \in
                  {IF Ever(TupleOf(t)) THEN LastWritten(TupleOf(t)) ELSE ""}
                  \cup { tasks[v].ip : v \in ConcurrentSets(t, TupleOf(t)) }]_vars

C16_Witness ==
    \E t, v \in TaskIDs :
        /\ tasks[t].pc = "runlock" /\ tasks[t].res # ""
        /\ tasks[v].pc = "lock" /\ TupleOf(v) = TupleOf(t) /\ tasks[v].ip # tasks[t].res
        /\ \E k \in DOMAIN written : k # TupleOf(t) /\ Len(written[k]) > 0

\* ---------------------------------------------------- Detector: services
\* The address a service's answer carries, if it is an address of the
\* family asked for: the text between the white space of a body read from a
\* 200 response, being an IPv6 address for GetIPv6 and an IPv4 address
\* (written in dotted or in IPv4-mapped form) for GetIPv4.
Usable(resp, isIPv6) ==
    /\ resp.kind = "response"
    /\ resp.status = 200
    /\ resp.body.text \in (IF isIPv6 THEN IPv6Addrs ELSE IPv4Addrs \cup MappedAddrs)

C18_UpdateAllReturns ==
    passPC = "running" =>
        /\ \A u \in UnitIDs : upc[u] = "send" => ENABLED SendErr(u)
        /\ \/ \E u \in UnitIDs : ENABLED (UnitStep(u) \/ SendErr(u))
           \/ ENABLED ReturnPass

\* The upsert of unit u is in flight: UpsertDNSRecord has been called and
\* has not returned.
InUpsert(u) == upc[u] \in {"find", "create", "update"}

\* C19 (one unit per key): within a pass no two units of the same (zone,
\* name, type) both call the upsert, and no two upserts for the same (zone,
\* name, type) are in flight at the same time.
C19_OneUnitPerKey ==
    passPC = "running" =>
        \A u, v \in UnitIDs :
            (u # v /\ ZoneKey(u) = ZoneKey(v))
            => /\ ~(InUpsert(u) /\ InUpsert(v))
               /\ ~(OpsOf(calls[u], {"upsert"}) # << >> /\ OpsOf(calls[v], {"upsert"}) # << >>)

\* The lookup inside the upsert of unit u returns in this step without a
\* record although the provider holds one for the unit's (zone, name, type):
\* it failed for a reason other than not-found.
LookupFailed(u) ==
    /\ upc[u] = "find" /\ upc'[u] # "find"
    /\ Len(provider[ZoneKey(u)]) > 0
    /\ existing'[u] = NoRecord

\* C20 (lookup failure): when the lookup inside an upsert fails for a reason
\* other than not-found, the unit fails: it goes on to report an error
\* without issuing a create or an update, and the State is unchanged.
C20_LookupFailureFailsUnit ==
    [][\A u \in UnitIDs :
          LookupFailed(u) => /\ upc'[u] = "send"
                             /\ uerr'[u] # Nil
                             /\ state' = state]_vars

\* ------------------------------------------------ Detector: shared fields
\* The field of the Detector that goroutine g is about to write.
WritesField(g) ==
    IF callers[g].pc = "cache"
    THEN (IF callers[g].isIPv6 THEN "ipv6Cache" ELSE "ipv4Cache")
    ELSE IF callers[g].pc = "stamp" THEN "lastUpdate"
    ELSE "none"

\* C21 (only the State is shared): two units of a pass are never about to
\* write the same memory location outside the State without
\* synchronization, and no field of the Detector ever holds a mix of two
\* writes.
C21_OnlyStateShared ==
    /\ \A g, h \in TaskIDs :
         (g # h /\ WritesField(g) # "none") => WritesField(h) # WritesField(g)
    /\ det.ipv4Cache # Torn
    /\ det.ipv6Cache # Torn
    /\ det.lastUpdate # -1

\* C22 (passes never overlap): UpdateAll returns only when every unit it
\* spawned is done; while no pass runs no unit of a pass is alive; a pass
\* starts only from the initial, tick or final call of the loop with every
\* unit fresh; and the loop moves on to its next call only when no pass is
\* running.
C22_PassesNeverOverlap ==
    /\ [](passPC = "idle" => \A u \in UnitIDs : upc[u] = "idle")
    /\ [](passPC = "running" => mainPC \in PassPCs)
    /\ [][/\ Returns => \A u \in UnitIDs : upc[u] = "done"
          /\ (passPC = "idle" /\ passPC' = "running")
               => \A u \in UnitIDs : upc[u] = "idle" /\ upc'[u] = "detect" /\ calls[u] = << >>
          /\ mainPC' # mainPC => passPC' = "idle"]_vars

C22_Witness ==
    /\ mainPC = "FinalUpdate"
    /\ ticks = 1
    /\ passPC = "running"
    /\ \E u, v \in UnitIDs : upc[u] = "done" /\ upc[v] = "update"

\* C23 (no retry inside a pass): within one UpdateAll a unit calls the
\* resolver at most once and the upsert at most once (one lookup, one create
\* or update); the step in which a unit fails leaves the State as it was
\* and sends the unit to report; and in every pass, also after a failure, a
\* unit whose key is absent or whose resolved address differs from the
\* stored one calls the upsert.
C23_NoRetry ==
    /\ [](\A u \in UnitIDs :
            /\ Len(OpsOf(calls[u], {"resolve"})) <= 1
            /\ Len(OpsOf(calls[u], {"upsert"})) <= 1
            /\ Len(OpsOf(calls[u], {"find"})) <= 1
            /\ Len(OpsOf(calls[u], {"create", "update"})) <= 1)
    /\ [][\A u \in UnitIDs :
            /\ Fails(u) => (state' = state /\ upc'[u] = "send")
            /\ (upc[u] = "send" /\ upc'[u] # "send") => upc'[u] = "done"
            /\ (Decides(u) /\ (UnitKey(u) \notin DOMAIN state \/ state[UnitKey(u)] # currentIP[u]))
                 => /\ upc'[u] = "find"
                    /\ Len(OpsOf(calls'[u], {"upsert"})) = 1]_vars

C23_Witness ==
    /\ cfg = DualStack
    /\ mainPC = "TickUpdate"
    /\ lastResult = [ok |-> FALSE, count |-> 2]
    /\ state = NewState
    /\ \E u \in UnitIDs : upc[u] = "find" /\ lastKnownIP[u] = ""

\* The create of unit u, issued after a lookup that returned no record,
\* fails in this step while the provider holds a record of the unit's
\* (zone, name, type) that another actor created in the meantime.
CreateRaced(u) ==
    /\ upc[u] = "create" /\ upc'[u] # "create"
    /\ existing[u] = NoRecord
    /\ provider' = provider
    /\ Len(provider[ZoneKey(u)]) > 0
    /\ \E v \in UnitIDs \ {u} :
         /\ ZoneKey(v) = ZoneKey(u)
         /\ \E n \in 1..Len(calls[v]) : calls[v][n].op = "create" /\ calls[v][n].ok

\* C24 (create race): when the create that follows a not-found lookup fails
\* because the record exists by now, the upsert goes on to update that
\* record and the unit does not fail.
C24_CreateRaceTolerated ==
    [][\A u \in UnitIDs :
          CreateRaced(u) => (upc'[u] = "update" /\ uerr'[u] = Nil)]_vars

\* ------------------------------------------------------------ cancellation
\* C25 (cancellation): once the context is cancelled every resolver and
\* provider call of the pass returns an error; a unit whose resolver call,
\* create or update was cancelled fails in that step with the State
\* unchanged; a cancelled lookup returns no record; and the pass does not
\* get stuck: a unit with an error to report can send it, and some unit can
\* step or UpdateAll can return.
C25_CancellationPassedDown ==
    /\ [][ctxDone =>
            \A u \in UnitIDs :
              /\ (upc[u] = "detect" /\ upc'[u] # "detect")
                   => (upc'[u] = "send" /\ uerr'[u] # Nil /\ state' = state)
              /\ (upc[u] = "find" /\ upc'[u] # "find")
                   => (existing'[u] = NoRecord /\ state' = state /\ provider' = provider)
              /\ (upc[u] \in {"create", "update"} /\ upc'[u] # upc[u])
                   => /\ upc'[u] = "send"
                      /\ uerr'[u] # Nil
                      /\ state' = state
                      /\ provider' = provider]_vars
    /\ []((ctxDone /\ passPC = "running") =>
            /\ \A u \in UnitIDs : upc[u] = "send" => ENABLED SendErr(u)
            /\ \/ \E u \in UnitIDs : ENABLED (UnitStep(u) \/ SendErr(u))
               \/ ENABLED ReturnPass)

\* InitializeState stored content c for the key of unit u.
Seeded(u, c) ==
    \E n \in 1..Len(initLog) :
        /\ UnitKey(initLog[n].unit) = UnitKey(u)
        /\ initLog[n].err = Nil
        /\ initLog[n].content = c

\* C26 (startup ordering): once runDaemon has left InitializeState every
\* pair has been looked up and InitializeState has returned; no pass runs
\* and no tick or signal is taken before that; runDaemon goes from
\* InitializeState to the initial UpdateAll whatever was logged, and the
\* ticker and the signal channel come into play only after the initial pass
\* returned; in the initial pass a unit whose resolved address equals the
\* content seeded for its key makes no provider call.
C26_StartupOrdering ==
    /\ [](mainPC # "InitializeState" =>
            /\ Len(initLog) = Len(Pairs(cfg))
            /\ \A n \in 1..Len(initLog) : initLog[n].unit = Pairs(cfg)[n]
            /\ initResult # "none")
    /\ [](mainPC \in {"InitializeState", "InitialUpdate"} =>
            /\ ticks = 0 /\ ~tickPending /\ ~sigPending
            /\ mainPC = "InitializeState" => passPC = "idle")
    /\ [][/\ (mainPC = "InitializeState" /\ mainPC' # mainPC) => mainPC' = "InitialUpdate"
          /\ (mainPC = "InitialUpdate" /\ mainPC' # mainPC) => (mainPC' = "Loop" /\ Returns)
          /\ mainPC = "InitialUpdate" =>
               \A u \in UnitIDs :
                  (Decides(u) /\ Seeded(u, currentIP[u]))
                  => /\ upc'[u] = "done"
                     /\ uerr'[u] = Nil
                     /\ OpsOf(calls'[u], ProviderOps) = << >>
                     /\ provider' = provider
                     /\ state' = state]_vars

C26_Witness ==
    /\ mainPC = "InitialUpdate"
    /\ passPC = "running"
    /\ \E n \in 1..Len(initLog) : initLog[n].err # Nil
    /\ \E u \in UnitIDs :
         /\ upc[u] = "done" /\ uerr[u] = Nil
         /\ Len(calls[u]) = 1
         /\ Seeded(u, calls[u][1].content)

\* The Record Specification invariant, in the words of the specification.
RecordInvariant(r) ==
    /\ r.ZoneID # ""
    /\ r.Name # ""
    /\ Len(r.Types) >= 1
    /\ \A j \in 1..Len(r.Types) : r.Types[j] \in {"A", "AAAA"}
    /\ r.TTL >= 60
    /\ r.TTL <= 86400

\* C27 (Load returns only valid configurations): a configuration Load
\* returns has only records with a non-empty zone identifier and name, at
\* least one type, every type A or AAAA and a TTL in 60..86400; a file whose
\* configuration has a record violating any of these makes Load return an
\* error and no configuration, and only a configuration returned without
\* error goes on to the engine.
C27_LoadedConfigValid ==
    /\ (load.pc \in {"returned", "engine"} /\ load.err = Nil)
         => /\ load.cfg = load.file.cfg
            /\ \A i \in 1..Len(load.cfg.Records) : RecordInvariant(load.cfg.Records[i])
    /\ (/\ load.pc \in {"returned", "fatal", "engine"}
        /\ load.file.kind = "yaml"
        /\ \E i \in 1..Len(load.file.cfg.Records) :
               ~RecordInvariant(load.file.cfg.Records[i]))
         => (load.err \notin {Nil, "none"} /\ load.cfg = << >> /\ load.pc # "engine")
    /\ load.pc = "engine" => load.err = Nil
    /\ load.pc = "fatal" => (load.err \notin {Nil, "none"} /\ load.cfg = << >>)

C27_Witness ==
    /\ load.pc = "engine"
    /\ Len(load.cfg.Records) = 2
    /\ load.cfg.Records[1].TTL = 86400
    /\ load.cfg.Records[1].Types = << "A", "AAAA" >>

\* The provider holds a record of unit u's (zone, name, type) whose content
\* is the address stored for that key.
ProviderHolds(u) ==
    \E n \in 1..Len(Matching(provider, Rec(u).ZoneID, Rec(u).Name, RecType(u))) :
        Matching(provider, Rec(u).ZoneID, Rec(u).Name, RecType(u))[n].Content
            = Get(state, Rec(u).ZoneID, Rec(u).Name, RecType(u))

\* C28 (state/provider agreement): whenever no pass is running, every key
\* with a non-empty stored address has a provider record whose content
\* equals that stored address (this process being the only writer of the
\* provider's records).
C28_StateProviderAgree ==
    passPC = "idle" =>
        \A u \in UnitIDs :
            Get(state, Rec(u).ZoneID, Rec(u).Name, RecType(u)) # "" => ProviderHolds(u)

\* In the pass that is returning, every unit of u's key resolved address a
\* and none of its calls failed.
KeySucceeded(u, a) ==
    \A v \in UnitIDs :
        ZoneKey(v) = ZoneKey(u) =>
            /\ uerr[v] = Nil
            /\ Len(calls[v]) >= 1
            /\ calls[v][1].op = "resolve"
            /\ calls[v][1].content = a
            /\ \A i \in 1..Len(calls[v]) : calls[v][i].ok

\* The provider's content for unit u's key is a: it holds a record of the
\* key and every record of the key has content a.
ProviderContentIs(prov, u, a) ==
    /\ Len(Matching(prov, Rec(u).ZoneID, Rec(u).Name, RecType(u))) >= 1
    /\ \A n \in 1..Len(Matching(prov, Rec(u).ZoneID, Rec(u).Name, RecType(u))) :
           Matching(prov, Rec(u).ZoneID, Rec(u).Name, RecType(u))[n].Content = a

\* C29 (convergence): when a pass returns in which every call for a key
\* succeeded and its address resolved to a, the stored address and the
\* provider's content for the key are both a; and a unit that then resolves
\* the stored address again makes no provider call.
C29_Convergence ==
    /\ [][Returns =>
            \A u \in UnitIDs : \A a \in IPv4Addrs \cup IPv6Addrs :
                KeySucceeded(u, a) =>
                    /\ Get(state', Rec(u).ZoneID, Rec(u).Name, RecType(u)) = a
                    /\ ProviderContentIs(provider', u, a)]_vars
    /\ [][\A u \in UnitIDs :
            (/\ passPC = "running"
             /\ upc[u] = "get"
             /\ upc'[u] # "get"
             /\ Get(state, Rec(u).ZoneID, Rec(u).Name, RecType(u)) = currentIP[u])
                => /\ upc'[u] = "done"
                   /\ calls'[u] = calls[u]
                   /\ provider' = provider]_vars

\* C30 (key injectivity): a Set on one (zone, name, type) never changes the
\* value a Get returns for a different (zone, name, type).
C30_KeyInjective ==
    [][\A t \in TaskIDs :
          Stores(t) =>
            \A k \in StateTuples \ {TupleOf(t)} :
                Get(state', k[1], k[2], k[3]) = Get(state, k[1], k[2], k[3])]_vars

\* C31 (InitializeState is read-only towards the provider): while
\* InitializeState runs, whatever the configuration and the outcome of each
\* lookup, every client call it issues is a find; the provider's records are
\* left as they are (no create, no update), and no unit resolves an address.
C31_InitReadOnly ==
    /\ [](\A n \in 1..Len(initLog) : initLog[n].ops = << "find" >>)
    /\ [][mainPC = "InitializeState" =>
            /\ provider' = provider
            /\ calls' = calls
            /\ currentIP' = currentIP
            /\ det' = det
            /\ callers' = callers]_vars

C31_Witness ==
    /\ mainPC = "InitializeState"
    /\ Len(initLog) = Len(Pairs(cfg))
    /\ \E n, m \in 1..Len(initLog) :
         /\ initLog[n].err = Nil
         /\ state[UnitKey(initLog[n].unit)] = initLog[n].content
         /\ initLog[m].err = "DNS record not found"
    /\ provider = ExistingA

====
